---- MODULE Spec2Model ----
(***************************************************************************)
(* A model of the document pipeline of the insurance-claims backend:       *)
(* backend/vector_store.py (VectorStore over a flat L2 index) and the     *)
(* handlers of backend/main.py that share the one VectorStore.            *)
(*                                                                         *)
(* Python sequences are 0-based, TLA+ sequences 1-based: the row with     *)
(* ordinal i of the index is index[i + 1].                                *)
(***************************************************************************)
EXTENDS Integers, Sequences, FiniteSets, TLC

(***************************************************************************)
(* Bounds of the model.                                                    *)
(***************************************************************************)
MaxRows == 3        \* add_embeddings is called only while the store stays within MaxRows rows
MaxBatch == 2       \* rows of one add_embeddings call
MaxTopK == 2        \* top_k of a search is drawn from 0..MaxTopK

(***************************************************************************)
(* Values.                                                                 *)
(***************************************************************************)
None == "None"

\* self.embedding_dim: the width D the VectorStore is constructed with. The
\* code compares widths only for equality, so the model constructs the store
\* with the narrowest index.
embedding_dim == 1

Range(s) == {s[i] : i \in DOMAIN s}

SeqsUpTo(S, n) == UNION {[1..k -> S] : k \in 0..n}

Replicate(x, n) == [i \in 1..n |-> x]

Min(a, b) == IF a <= b THEN a ELSE b
Max(a, b) == IF a >= b THEN a ELSE b

\* the doc_id values (uuid4 strings in main.py)
DocIdValues == {"d1", "d2"}

\* models.ChunkMetadata: the object chunk_document builds for chunk i of document d.
\* page_number is Optional[int]: <<>> for None, <<n>> for page n.
ChunkMetadata(d, i) ==
    [chunk_id |-> <<d, "chunk", i>>,
     doc_id |-> d,
     doc_type |-> IF d = "d1" THEN "policy" ELSE "claim_form",
     filename |-> <<d, "pdf">>,
     page_number |-> IF d = "d1" THEN <<>> ELSE <<i + 1>>,
     chunk_index |-> i,
     text |-> <<"text", d, i>>]

Chunks == {ChunkMetadata("d1", 0), ChunkMetadata("d1", 1), ChunkMetadata("d2", 0)}

\* float32 vectors of the index width, and one array row of another width
Coords == {0, 1}
Vectors == [1..embedding_dim -> Coords]
WideVector == [i \in 1..(embedding_dim + 1) |-> 0]

\* query vectors: at squared distance 0, 1 or 4 per coordinate from the stored ones
QueryVectors == [1..embedding_dim -> {0, 2}] \cup {WideVector}

TopKValues == 0..MaxTopK

\* the doc_ids argument of search: absent, an empty list, or a list of ids
DocIdsValues == {None, <<>>, <<"d1">>, <<"d2">>}

(***************************************************************************)
(* numpy / faiss primitives used by VectorStore.                           *)
(***************************************************************************)
\* ndarray.astype('float32') on one integer-valued component: exact up to 2^24,
\* round-to-nearest-even on the spacing 2 up to 2^25
Float32(x) ==
    LET a == IF x < 0 THEN -x ELSE x
        r == IF a <= 16777216 THEN a
             ELSE IF a % 2 = 0 THEN a
             ELSE IF ((a - 1) \div 2) % 2 = 0 THEN a - 1 ELSE a + 1
    IN IF x < 0 THEN -r ELSE r

AsFloat32(v) == [i \in DOMAIN v |-> Float32(v[i])]

\* the metric of faiss.IndexFlatL2: the squared Euclidean distance
RECURSIVE SumSq(_, _, _)
SumSq(u, v, n) ==
    IF n = 0 THEN 0 ELSE SumSq(u, v, n - 1) + (u[n] - v[n]) * (u[n] - v[n])

SquaredL2(u, v) == SumSq(u, v, Len(u))

\* the ways faiss may order two rows at the same distance
TieOrders == {"low", "high"}

\* IndexFlatL2.search(q, k): the k nearest rows as (distance, ordinal), nearest
\* first; rows at equal distance come in ascending or in descending ordinal
\* order, as the build of faiss has it
FaissSearch(idx, q, k, tie) ==
    LET N == Len(idx)
        dist(i) == SquaredL2(idx[i], q)
        Before(i, j) == \/ dist(i) < dist(j)
                        \/ /\ dist(i) = dist(j)
                           /\ IF tie = "low" THEN i < j ELSE i > j
        Rank(i) == Cardinality({j \in 1..N : Before(j, i)})
    IN [p \in 1..k |->
          LET i == CHOOSE i \in 1..N : Rank(i) = p - 1
          IN [dist |-> dist(i), idx |-> i - 1]]

(***************************************************************************)
(* backend/chunker.py: TextChunker.  A text is the sequence of its         *)
(* whitespace-separated words; of a word the chunker sees whether it       *)
(* begins with a capital letter and whether it ends with '.', '!' or '?'.  *)
(***************************************************************************)
MaxWords == 3       \* words of a text given to chunk_document
MaxContext == 1     \* context_size of get_chunk_context is drawn from 0..MaxContext
MaxConfig == 2      \* chunk_size, chunk_overlap and min_chunk_size are drawn from 0..MaxConfig

Word(id, cap, stop) == [id |-> id, cap |-> cap, stop |-> stop]

\* the words "a", "B", "c." and "D."
WordValues ==
    {Word(1, FALSE, FALSE), Word(2, TRUE, FALSE), Word(3, FALSE, TRUE), Word(4, TRUE, TRUE)}

Texts == SeqsUpTo(WordValues, MaxWords)

\* TextChunker.__init__
ChunkerConfigs ==
    [chunk_size : 0..MaxConfig, chunk_overlap : 0..MaxConfig,
     min_chunk_size : 0..MaxConfig]

\* re.split(r'(?<=[.!?])\s+(?=[A-Z])', text): the text is cut at the white space
\* between a word that ends a sentence and a word that begins with a capital;
\* the pieces are stripped and the empty ones left out
RECURSIVE SplitIntoSentences(_, _, _, _)
SplitIntoSentences(text, pos, sentence, sentences) ==
    IF pos > Len(text)
    THEN IF sentence = <<>> THEN sentences ELSE Append(sentences, sentence)
    ELSE IF sentence # <<>> /\ sentence[Len(sentence)].stop /\ text[pos].cap
         THEN SplitIntoSentences(text, pos + 1, <<text[pos]>>, Append(sentences, sentence))
         ELSE SplitIntoSentences(text, pos + 1, Append(sentence, text[pos]), sentences)

\* all_words[-n:] for n > 0
LastWords(all_words, n) ==
    IF n >= Len(all_words) THEN all_words
    ELSE SubSeq(all_words, Len(all_words) - n + 1, Len(all_words))

\* the ChunkMetadata _chunk_text builds; text is ' '.join(current_chunk), kept
\* as its words
NewChunk(meta, chunk_index, chunk_text) ==
    [chunk_id |-> <<meta.doc_id, "chunk", chunk_index>>,
     doc_id |-> meta.doc_id,
     doc_type |-> meta.doc_type,
     filename |-> meta.filename,
     page_number |-> meta.page_number,
     chunk_index |-> chunk_index,
     text |-> chunk_text]

\* a chunk is emitted whatever its size
EmitsAny(chunk_text, config) == TRUE

\* len(chunk_text.split()) >= self.min_chunk_size
Emits(chunk_text, config) == Len(chunk_text) >= config.min_chunk_size

\* chunk_index += 1 for every chunk closed
IndexAfterClose(chunk_index, emitted) == chunk_index + 1

\* chunk_index += 1 inside the if that emits
IndexAfter(chunk_index, emitted) == IF emitted THEN chunk_index + 1 ELSE chunk_index

\* the locals of _chunk_text before its loop, and its history (no variables
\* of the code): seed and parts are the overlap words and the sentences (by
\* position) the accumulator was built from, built keeps them for every chunk
\* emitted, dropped keeps the text of every chunk closed and not emitted with
\* the number of chunks emitted before it, counts keeps current_word_count
\* beside the words of the accumulator after every sentence
ChunkTextStart ==
    [chunks |-> <<>>, current_chunk |-> <<>>, current_word_count |-> 0,
     chunk_index |-> 0, seed |-> <<>>, parts |-> <<>>, built |-> <<>>,
     dropped |-> <<>>, counts |-> <<>>]

\* the chunk is closed: emitted if large enough
CloseChunk(st, config, meta) ==
    LET emitted == Emits(st.current_chunk, config)
    IN [st EXCEPT
          !.chunks = IF emitted
                     THEN Append(st.chunks, NewChunk(meta, st.chunk_index, st.current_chunk))
                     ELSE st.chunks,
          !.chunk_index = IndexAfter(st.chunk_index, emitted),
          !.built = IF emitted
                    THEN Append(st.built, [seed |-> st.seed, parts |-> st.parts])
                    ELSE st.built,
          !.dropped = IF emitted THEN st.dropped
                      ELSE Append(st.dropped, [text |-> st.current_chunk,
                                               emitted |-> Len(st.chunks)])]

\* an overflow test that looks at the new sentence alone
OverflowsBySentence(st, word_count, config) ==
    word_count > config.chunk_size /\ st.current_chunk # <<>>

\* current_word_count + word_count > self.chunk_size and current_chunk
Overflows(st, word_count, config) ==
    st.current_word_count + word_count > config.chunk_size /\ st.current_chunk # <<>>

\* the seed counted as chunk_overlap words
OverlapCountNominal(overlap_text, config) == config.chunk_overlap

\* len(overlap_text.split())
OverlapCount(overlap_text, config) == Len(overlap_text)

\* one turn of the loop is over: the count kept beside the accumulator
Counted(st) ==
    [st EXCEPT !.counts = Append(st.counts, [tracked |-> st.current_word_count,
                                             actual |-> Len(st.current_chunk)])]

\* the loop of _chunk_text over the sentences, and the final chunk
RECURSIVE ChunkSentences(_, _, _, _, _)
ChunkSentences(sentences, pos, config, meta, st) ==
    IF pos > Len(sentences)
    THEN IF st.current_chunk # <<>> THEN CloseChunk(st, config, meta) ELSE st
    ELSE LET words == sentences[pos]
             word_count == Len(words)
         IN IF Overflows(st, word_count, config)
            THEN LET closed == CloseChunk(st, config, meta)
                     overlap_text == LastWords(st.current_chunk, config.chunk_overlap)
                 IN IF config.chunk_overlap > 0
                    THEN ChunkSentences(sentences, pos + 1, config, meta,
                            Counted([closed EXCEPT
                               !.current_chunk = overlap_text \o words,
                               !.current_word_count =
                                   OverlapCount(overlap_text, config) + word_count,
                               !.seed = overlap_text,
                               !.parts = <<pos>>]))
                    ELSE ChunkSentences(sentences, pos + 1, config, meta,
                            Counted([closed EXCEPT
                               !.current_chunk = words,
                               !.current_word_count = word_count,
                               !.seed = <<>>,
                               !.parts = <<pos>>]))
            ELSE ChunkSentences(sentences, pos + 1, config, meta,
                    Counted([st EXCEPT
                       !.current_chunk = st.current_chunk \o words,
                       !.current_word_count = st.current_word_count + word_count,
                       !.parts = Append(st.parts, pos)]))

\* TextChunker._chunk_text: one chunking pass
ChunkText(text, config, meta) ==
    ChunkSentences(SplitIntoSentences(text, 1, <<>>, <<>>), 1, config, meta,
                   ChunkTextStart)

RECURSIVE Flatten(_, _)
Flatten(lists, n) == IF n = 0 THEN <<>> ELSE Flatten(lists, n - 1) \o lists[n]

\* the document a text belongs to
DocMeta(page_number) ==
    [doc_id |-> "d1", filename |-> <<"d1", "pdf">>, doc_type |-> "policy",
     page_number |-> page_number]

\* a chunk_document that chunks the pages as one text under the first page's number
ChunkDocumentOutcomeAcrossPages(text, paged, pages, config) ==
    LET passes == IF paged /\ pages # <<>>
                  THEN <<ChunkText(Flatten([p \in DOMAIN pages |-> pages[p].text],
                                           Len(pages)),
                                   config, DocMeta(<<pages[1].page_number>>))>>
                  ELSE <<ChunkText(text, config, DocMeta(<<>>))>>
    IN [passes |-> [p \in DOMAIN passes |-> passes[p].chunks],
        dropped |-> [p \in DOMAIN passes |-> passes[p].dropped],
        built |-> [p \in DOMAIN passes |-> passes[p].built],
        counts |-> [p \in DOMAIN passes |-> passes[p].counts],
        result |-> Flatten([p \in DOMAIN passes |-> passes[p].chunks], Len(passes))]

\* TextChunker.chunk_document: page by page if pages is given and not empty,
\* else the whole text; passes are the lists _chunk_text returned
ChunkDocumentOutcome(text, paged, pages, config) ==
    LET passes == IF paged /\ pages # <<>>
                  THEN [p \in DOMAIN pages |->
                           ChunkText(pages[p].text, config,
                                     DocMeta(<<pages[p].page_number>>))]
                  ELSE <<ChunkText(text, config, DocMeta(<<>>))>>
    IN [passes |-> [p \in DOMAIN passes |-> passes[p].chunks],
        dropped |-> [p \in DOMAIN passes |-> passes[p].dropped],
        built |-> [p \in DOMAIN passes |-> passes[p].built],
        counts |-> [p \in DOMAIN passes |-> passes[p].counts],
        result |-> Flatten([p \in DOMAIN passes |-> passes[p].chunks], Len(passes))]

\* list.sort(key=lambda x: x.chunk_index) step by step: the sort is stable, so
\* a chunk goes behind the chunks before it that have its chunk_index or a lower one
InsertByChunkIndex(doc_chunks, c) ==
    LET k == Cardinality({i \in DOMAIN doc_chunks :
                             doc_chunks[i].chunk_index <= c.chunk_index})
    IN SubSeq(doc_chunks, 1, k) \o <<c>> \o SubSeq(doc_chunks, k + 1, Len(doc_chunks))

RECURSIVE SortByChunkIndex(_, _)
SortByChunkIndex(doc_chunks, n) ==
    IF n = 0 THEN <<>>
    ELSE InsertByChunkIndex(SortByChunkIndex(doc_chunks, n - 1), doc_chunks[n])

\* ' '.join([c.text for c in context_chunks]) as the words of the joined text
JoinTexts(context_chunks) ==
    Flatten([i \in DOMAIN context_chunks |-> context_chunks[i].text],
            Len(context_chunks))

\* TextChunker.get_chunk_context: the chunks of the document of chunk in the
\* order of chunk_index, the first of them with the chunk_id of chunk as the
\* target, and the texts of the chunks from context_size before the target to
\* context_size after it; the text of chunk if no chunk has its chunk_id
GetChunkContextOutcome(chunk, all_chunks, context_size) ==
    LET same_doc == SelectSeq(all_chunks, LAMBDA c : c.doc_id = chunk.doc_id)
        doc_chunks == SortByChunkIndex(same_doc, Len(same_doc))
        found == {i \in DOMAIN doc_chunks : doc_chunks[i].chunk_id = chunk.chunk_id}
    IN IF found = {} THEN chunk.text
       ELSE LET target_idx == (CHOOSE i \in found : \A j \in found : i <= j) - 1
                start_idx == Max(0, target_idx - context_size)
                end_idx == Min(Len(doc_chunks), target_idx + context_size + 1)
            IN JoinTexts(SubSeq(doc_chunks, start_idx + 1, end_idx))

\* a chunk of another document
OtherChunk ==
    NewChunk([DocMeta(<<>>) EXCEPT !.doc_id = "d2", !.filename = <<"d2", "pdf">>], 0,
             <<Word(4, TRUE, TRUE)>>)

\* the chunk lists given to get_chunk_context with the chunks chunk_document
\* returned: the list as returned, the list backwards, and the list behind a
\* chunk of another document
AllChunksOf(result) ==
    {result, [i \in DOMAIN result |-> result[Len(result) + 1 - i]],
     <<OtherChunk>> \o result}

\* a call of get_chunk_context and what it returned
ContextCall(chunk, all_chunks, context_size, result) ==
    [chunk |-> chunk, all_chunks |-> all_chunks, context_size |-> context_size,
     result |-> result]

\* a page dictionary of the pages argument
Page(page_number, text) == [page_number |-> page_number, text |-> text]

\* the pages lists given with a text: empty, the text as one page, or the text
\* cut in two pages
PagesOf(text) ==
    {<<>>, <<Page(1, text)>>}
    \cup {<<Page(1, SubSeq(text, 1, p)), Page(2, SubSeq(text, p + 1, Len(text)))>> :
             p \in 0..Len(text)}

\* a text of three sentences of a, b and c words, every word another one
SentencesText(a, b, c) ==
    [i \in 1..(a + b + c) |->
        Word(i, i \in {1, a + 1, a + b + 1}, i \in {a, a + b, a + b + c})]

\* the texts of three sentences that total 40 words
ScenarioTexts ==
    {SentencesText(ab[1], ab[2], 40 - ab[1] - ab[2]) :
        ab \in {x \in (1..38) \X (1..38) : x[1] + x[2] < 40}}

ScenarioConfig == [chunk_size |-> 30, chunk_overlap |-> 5, min_chunk_size |-> 10]

\* get_chunk_context has not been called
NoContext == ContextCall(OtherChunk, <<>>, 0, <<>>)

\* a call of chunk_document: the configuration and the arguments
ChunkerCall(config, text, paged, pages) ==
    [phase |-> "called", config |-> config, text |-> text, paged |-> paged,
     pages |-> pages, passes |-> <<>>, dropped |-> <<>>, built |-> <<>>,
     counts |-> <<>>, result |-> <<>>, context |-> NoContext]

\* the calls made of chunk_document: a text without pages, a text with one of
\* its pages lists, or one of the scenario texts
IsChunkerCall(c) ==
    \/ \E config \in ChunkerConfigs, text \in Texts :
          \/ c = ChunkerCall(config, text, FALSE, <<>>)
          \/ \E pages \in PagesOf(text) : c = ChunkerCall(config, text, TRUE, pages)
    \/ \E text \in ScenarioTexts : c = ChunkerCall(ScenarioConfig, text, FALSE, <<>>)

\* text_chunker is not in use
NoChunking ==
    [phase |-> "none", config |-> ScenarioConfig, text |-> <<>>, paged |-> FALSE,
     pages |-> <<>>, passes |-> <<>>, dropped |-> <<>>, built |-> <<>>,
     counts |-> <<>>, result |-> <<>>, context |-> NoContext]

(***************************************************************************)
(* RAGEngine: the values of a query.                                       *)
(***************************************************************************)
\* a string is kept as the sequence of its tokens; these tokens are whitespace
Whitespace == {" ", "\n"}

\* str.strip(): the string without its leading and trailing whitespace
Strip(text) ==
    LET inked == {i \in DOMAIN text : text[i] \notin Whitespace}
    IN IF inked = {} THEN <<>>
       ELSE SubSeq(text, CHOOSE i \in inked : \A j \in inked : i <= j,
                         CHOOSE i \in inked : \A j \in inked : i >= j)

\* the QueryResponse of a call that returned none
NoResponse == [answer |-> <<>>, sources |-> <<>>, confidence |-> [num |-> 0, den |-> 1]]

\* no call of rag_engine.query is in progress
NoQuerying ==
    [phase |-> "idle", caller |-> "none", question |-> <<>>, top_k |-> 0,
     filtered |-> FALSE, doc_ids |-> <<>>, embedder |-> "ok",
     backend |-> [kind |-> "none", text |-> <<>>],
     entered |-> FALSE, embedded |-> <<>>, searched |-> 0, search_results |-> <<>>,
     llm_calls |-> 0, fallback_calls |-> 0, raised |-> None, status_code |-> 0,
     response |-> NoResponse]

(***************************************************************************)
(* The state of the one VectorStore and the record of the last call.       *)
(***************************************************************************)
VARIABLES
    index,      \* self.index: the rows of the IndexFlatL2, row i at index[i + 1]
    metadata,   \* self.metadata: the list of metadata dicts
    last,       \* the call in progress: its arguments, the store before it, its outcome
    emptied,    \* history: delete_document removed the last rows and nothing was added since
    documents_db,  \* main.documents_db: the status of each document, Absent if not a key
    issued,     \* the doc_ids uuid4 has handed out
    disk,       \* the two artifacts save() writes
    inflight,   \* the handler tasks the event loop holds and is not running
    current,    \* the handler task the event loop is running, or NoTask
    committed,  \* history: the store as the last completed mutation left it
    chunker,    \* text_chunker: its configuration, the call made of it and what it returned
    rag         \* rag_engine: the call made of query, what it called and what came back

storeVars == <<index, metadata, last, emptied>>
appVars == <<documents_db, issued, disk, inflight, current, committed>>
pureVars == <<chunker, rag>>
vars == <<index, metadata, last, emptied, documents_db, issued, disk, inflight,
          current, committed, chunker, rag>>

\* IndexFlatL2.ntotal
ntotal(idx) == Len(idx)

Store(idx, md) == [index |-> idx, metadata |-> md]

\* no call in progress
Idle == [op |-> "idle", args |-> None, pre |-> None, raised |-> None, result |-> None]

Call(op, args, raised, result) ==
    [op |-> op, args |-> args, pre |-> Store(index, metadata),
     raised |-> raised, result |-> result]

\* MetadataDict without the page number of the chunk
MetadataDictNoPage(chunk) ==
    [chunk_id |-> chunk.chunk_id,
     doc_id |-> chunk.doc_id,
     doc_type |-> chunk.doc_type,
     filename |-> chunk.filename,
     page_number |-> <<>>,
     chunk_index |-> chunk.chunk_index,
     text |-> chunk.text]

\* the dict add_embeddings appends for a chunk
MetadataDict(chunk) ==
    [chunk_id |-> chunk.chunk_id,
     doc_id |-> chunk.doc_id,
     doc_type |-> chunk.doc_type,
     filename |-> chunk.filename,
     page_number |-> chunk.page_number,
     chunk_index |-> chunk.chunk_index,
     text |-> chunk.text]

\* the factor by which a filtered search over-fetches: search_k = top_k * 10
OVERFETCH == 10

\* a saved store the constructor finds on disk: one document of OVERFETCH
\* chunks at the origin and one chunk of another document next to it
NearRow == [vector |-> [i \in 1..embedding_dim |-> 0], chunk |-> ChunkMetadata("d1", 0)]
FarRow == [vector |-> [i \in 1..embedding_dim |-> 1], chunk |-> ChunkMetadata("d2", 0)]

StoreOfRows(rows) ==
    Store([i \in DOMAIN rows |-> rows[i].vector],
          [i \in DOMAIN rows |-> MetadataDict(rows[i].chunk)])

SavedStores ==
    {StoreOfRows(Replicate(NearRow, OVERFETCH) \o <<FarRow>>),
     StoreOfRows(<<FarRow>> \o Replicate(NearRow, OVERFETCH))}

\* the value of documents_db for a doc_id that is not a key
Absent == "absent"

\* a task of the event loop: a handler coroutine, the statement it is at (pc)
\* and its local variables
Task(op, doc_id, query, pc, i, keep, vecs) ==
    [op |-> op, doc_id |-> doc_id, query |-> query, pc |-> pc, i |-> i,
     indices_to_keep |-> keep, old_vectors |-> vecs]

\* the QueryRequest of a task that is no query
NoQuery == [question |-> <<>>, top_k |-> 0, filtered |-> FALSE, doc_ids |-> <<>>]

NewTask(op, doc_id, query) == Task(op, doc_id, query, "begin", 0, <<>>, <<>>)

NoTask == Task("none", "", NoQuery, "none", 0, <<>>, <<>>)

\* nothing saved yet
NoArtifacts == [index |-> <<>>, has_index |-> FALSE,
                metadata |-> <<>>, has_metadata |-> FALSE]

\* the stores VectorStore.__init__ makes: a new empty index and no metadata
\* when nothing was saved, else the saved index and the saved metadata
ConstructedStores == {Store(<<>>, <<>>)} \cup SavedStores

\* a VectorStore on its own, called directly: main.py plays no part
Init ==
    /\ \E s \in ConstructedStores :
          /\ index = s.index
          /\ metadata = s.metadata
    /\ last = Idle
    /\ emptied = FALSE
    /\ documents_db = [d \in DocIdValues |-> Absent]
    /\ issued = {}
    /\ disk = NoArtifacts
    /\ inflight = {}
    /\ current = NoTask
    /\ committed = Store(<<>>, <<>>)
    /\ chunker = NoChunking
    /\ rag = NoQuerying

\* the module globals of main.py when the process starts: vector_store is
\* constructed, documents_db is empty; the doc_ids of a saved store were handed
\* out by an earlier process
LoopInit ==
    /\ \E s \in ConstructedStores :
          /\ index = s.index
          /\ metadata = s.metadata
          /\ disk = IF s.index = <<>> THEN NoArtifacts
                    ELSE [index |-> s.index, has_index |-> TRUE,
                          metadata |-> s.metadata, has_metadata |-> TRUE]
          /\ issued = {s.metadata[i].doc_id : i \in DOMAIN s.metadata}
          /\ committed = s
    /\ last = Idle
    /\ emptied = FALSE
    /\ documents_db = [d \in DocIdValues |-> Absent]
    /\ inflight = {}
    /\ current = NoTask
    /\ chunker = NoChunking
    /\ rag = NoQuerying

(***************************************************************************)
(* VectorStore.add_embeddings                                              *)
(***************************************************************************)
\* the arrays a caller passes: n rows of one width
Arrays ==
    SeqsUpTo(Vectors, MaxBatch) \cup {Replicate(WideVector, n) : n \in 1..MaxBatch}

ChunkLists == SeqsUpTo(Chunks, MaxBatch)

\* add_embeddings without the comparison of the two lengths
AddEmbeddingsOutcomeUnchecked(idx, md, embeddings, chunks) ==
    LET rows == [i \in DOMAIN embeddings |-> AsFloat32(embeddings[i])]
    IN IF \E i \in DOMAIN rows : Len(rows[i]) # embedding_dim
       THEN [raised |-> "AssertionError", index |-> idx, metadata |-> md]
       ELSE [raised |-> None,
             index |-> idx \o rows,
             metadata |-> md \o [i \in DOMAIN chunks |-> MetadataDict(chunks[i])]]

\* add_embeddings with the metadata appended before the index takes the rows
AddEmbeddingsOutcomeMetadataFirst(idx, md, embeddings, chunks) ==
    IF Len(embeddings) # Len(chunks)
    THEN [raised |-> "ValueError", index |-> idx, metadata |-> md]
    ELSE LET rows == [i \in DOMAIN embeddings |-> AsFloat32(embeddings[i])]
             appended == md \o [i \in DOMAIN chunks |-> MetadataDict(chunks[i])]
         IN IF \E i \in DOMAIN rows : Len(rows[i]) # embedding_dim
            THEN [raised |-> "AssertionError", index |-> idx, metadata |-> appended]
            ELSE [raised |-> None, index |-> idx \o rows, metadata |-> appended]

\* the outcome of add_embeddings on a store: the exception it raises, if any,
\* and the store it leaves
AddEmbeddingsOutcome(idx, md, embeddings, chunks) ==
    IF Len(embeddings) # Len(chunks)
    THEN [raised |-> "ValueError", index |-> idx, metadata |-> md]
    ELSE LET rows == [i \in DOMAIN embeddings |-> AsFloat32(embeddings[i])]
         IN IF \E i \in DOMAIN rows : Len(rows[i]) # embedding_dim
            THEN \* IndexFlatL2.add asserts the width of the array
                 [raised |-> "AssertionError", index |-> idx, metadata |-> md]
            ELSE [raised |-> None,
                  index |-> idx \o rows,
                  metadata |-> md \o [i \in DOMAIN chunks |-> MetadataDict(chunks[i])]]

AddEmbeddings ==
    /\ UNCHANGED pureVars
    /\ last.op = "idle"
    /\ \E embeddings \in Arrays, chunks \in ChunkLists :
        LET out == AddEmbeddingsOutcome(index, metadata, embeddings, chunks)
        IN /\ Len(out.index) <= MaxRows \/ out.raised # None
           /\ index' = out.index
           /\ metadata' = out.metadata
           /\ last' = Call("add", [embeddings |-> embeddings, chunks |-> chunks],
                           out.raised, None)
           /\ emptied' = (emptied /\ out.index = <<>>)
    /\ UNCHANGED appVars

(***************************************************************************)
(* VectorStore.delete_document                                             *)
(***************************************************************************)
\* [i for i, m in enumerate(self.metadata) if m['doc_id'] != doc_id], as
\* positions of the TLA+ sequence, ascending
RECURSIVE IndicesToKeep(_, _, _)
IndicesToKeep(md, doc_id, i) ==
    IF i > Len(md) THEN <<>>
    ELSE IF md[i].doc_id # doc_id
         THEN <<i>> \o IndicesToKeep(md, doc_id, i + 1)
         ELSE IndicesToKeep(md, doc_id, i + 1)

\* IndexFlatL2.reconstruct(i): the stored row
Reconstruct(idx, i) == idx[i]

\* delete_document that filters the metadata and leaves the index as it is
DeleteDocumentOutcomeKeepIndex(idx, md, doc_id) ==
    LET indices_to_keep == IndicesToKeep(md, doc_id, 1)
    IN Store(idx, [k \in DOMAIN indices_to_keep |-> md[indices_to_keep[k]]])

\* delete_document that reconstructs rows 0..len(indices_to_keep)-1
DeleteDocumentOutcomeFirstRows(idx, md, doc_id) ==
    LET indices_to_keep == IndicesToKeep(md, doc_id, 1)
    IN IF Len(indices_to_keep) = Len(md)
       THEN Store(idx, md)
       ELSE Store([k \in DOMAIN indices_to_keep |-> AsFloat32(Reconstruct(idx, k))],
                  [k \in DOMAIN indices_to_keep |-> md[indices_to_keep[k]]])

DeleteDocumentOutcome(idx, md, doc_id) ==
    LET indices_to_keep == IndicesToKeep(md, doc_id, 1)
    IN IF Len(indices_to_keep) = Len(md)
       THEN Store(idx, md)
       ELSE IF indices_to_keep # <<>>
            THEN LET old_vectors == [k \in DOMAIN indices_to_keep |->
                                        Reconstruct(idx, indices_to_keep[k])]
                 IN Store([k \in DOMAIN old_vectors |-> AsFloat32(old_vectors[k])],
                          [k \in DOMAIN indices_to_keep |-> md[indices_to_keep[k]]])
            ELSE Store(<<>>, <<>>)

DeleteDocument ==
    /\ UNCHANGED pureVars
    /\ last.op = "idle"
    /\ \E doc_id \in DocIdValues :
        LET out == DeleteDocumentOutcome(index, metadata, doc_id)
        IN /\ index' = out.index
           /\ metadata' = out.metadata
           /\ last' = Call("delete", [doc_id |-> doc_id], None, None)
           /\ emptied' = (emptied \/ (index # <<>> /\ out.index = <<>>))
    /\ UNCHANGED appVars

(***************************************************************************)
(* VectorStore.search                                                      *)
(***************************************************************************)
\* the truth value Python gives the doc_ids argument: None and [] are falsy
Truthy(doc_ids) == doc_ids # None /\ doc_ids # <<>>

\* similarity = 1 - 1 / (1 + dist)
SimilarityComplement(dist) == [num |-> dist, den |-> 1 + dist]

\* similarity = 1 / (1 + dist), kept as the fraction num / den
Similarity(dist) == [num |-> 1, den |-> 1 + dist]

\* a >= b for two fractions with positive denominators
ScoreGeq(a, b) == a.num * b.den >= b.num * a.den

\* the loop over zip(distances[0], indices[0]): rows past the metadata list and
\* rows the filter rejects are skipped, the loop ends at top_k results.  ordinal
\* is not part of the returned tuple: it stands for the identity of the row's
\* metadata dict.
RECURSIVE CollectResults(_, _, _, _, _, _)
CollectResults(found, md, top_k, doc_ids, pos, results) ==
    IF pos > Len(found) THEN results
    ELSE LET dist == found[pos].dist
             idx == found[pos].idx
         IN IF idx < Len(md)
            THEN LET m == md[idx + 1]
                 IN IF Truthy(doc_ids) /\ m.doc_id \notin Range(doc_ids)
                    THEN CollectResults(found, md, top_k, doc_ids, pos + 1, results)
                    ELSE LET appended == Append(results,
                                                [metadata |-> m,
                                                 score |-> Similarity(dist),
                                                 ordinal |-> idx])
                         IN IF Len(appended) >= top_k
                            THEN appended
                            ELSE CollectResults(found, md, top_k, doc_ids, pos + 1, appended)
            ELSE CollectResults(found, md, top_k, doc_ids, pos + 1, results)

\* a filtered search that asks the index for top_k rows only
SearchKWithoutOverfetch(top_k, doc_ids) == top_k

\* the number of rows search asks the index for
SearchK(top_k, doc_ids) == IF Truthy(doc_ids) THEN top_k * OVERFETCH ELSE top_k

\* search without the early return on an empty index
SearchOutcomeNoEmptyCheck(idx, md, query_embedding, top_k, doc_ids, tie) ==
    LET k == Min(SearchK(top_k, doc_ids), ntotal(idx))
    IN IF Len(query_embedding) # embedding_dim \/ k <= 0
       THEN [raised |-> "AssertionError", result |-> None]
       ELSE [raised |-> None,
             result |-> CollectResults(
                            FaissSearch(idx, AsFloat32(query_embedding), k, tie),
                            md, top_k, doc_ids, 1, <<>>)]

\* the outcome of search: the exception it raises, if any, and the list it returns
SearchOutcome(idx, md, query_embedding, top_k, doc_ids, tie) ==
    IF ntotal(idx) = 0
    THEN [raised |-> None, result |-> <<>>]
    ELSE LET k == Min(SearchK(top_k, doc_ids), ntotal(idx))
         IN IF Len(query_embedding) # embedding_dim \/ k <= 0
            THEN \* IndexFlatL2.search asserts the width of the query and k > 0
                 [raised |-> "AssertionError", result |-> None]
            ELSE [raised |-> None,
                  result |-> CollectResults(
                                 FaissSearch(idx, AsFloat32(query_embedding), k, tie),
                                 md, top_k, doc_ids, 1, <<>>)]

Search ==
    /\ UNCHANGED pureVars
    /\ last.op = "idle"
    /\ \E query_embedding \in QueryVectors, top_k \in TopKValues,
          doc_ids \in DocIdsValues, tie \in TieOrders :
        LET out == SearchOutcome(index, metadata, query_embedding, top_k, doc_ids, tie)
        IN /\ last' = Call("search",
                           [query_embedding |-> query_embedding, top_k |-> top_k,
                            doc_ids |-> doc_ids],
                           out.raised, out.result)
    /\ UNCHANGED <<index, metadata, emptied>>
    /\ UNCHANGED appVars

(***************************************************************************)
(* VectorStore.get_chunks_by_doc_id and VectorStore.get_stats              *)
(***************************************************************************)
GetChunksByDocIdResult(md, doc_id) == SelectSeq(md, LAMBDA m : m.doc_id = doc_id)

GetChunksByDocId ==
    /\ UNCHANGED pureVars
    /\ last.op = "idle"
    /\ \E doc_id \in DocIdValues :
        /\ last' = Call("get_chunks_by_doc_id", [doc_id |-> doc_id], None,
                        GetChunksByDocIdResult(metadata, doc_id))
    /\ UNCHANGED <<index, metadata, emptied>>
    /\ UNCHANGED appVars

GetStatsResult(idx, md) ==
    [total_chunks |-> ntotal(idx),
     total_documents |-> Cardinality({md[i].doc_id : i \in DOMAIN md}),
     embedding_dim |-> embedding_dim]

GetStats ==
    /\ UNCHANGED pureVars
    /\ last.op = "idle"
    /\ last' = Call("get_stats", None, None, GetStatsResult(index, metadata))
    /\ UNCHANGED <<index, metadata, emptied>>
    /\ UNCHANGED appVars

(***************************************************************************)
(* The calls of the VectorStore, one at a time.                            *)
(***************************************************************************)
\* the call returns (or its exception reaches the caller): the next call may start
Return ==
    /\ UNCHANGED pureVars
    /\ last.op # "idle"
    /\ last' = Idle
    /\ UNCHANGED <<index, metadata, emptied>>
    /\ UNCHANGED appVars

Next ==
    \/ AddEmbeddings
    \/ DeleteDocument
    \/ Search
    \/ GetChunksByDocId
    \/ GetStats
    \/ Return

Spec == Init /\ [][Next]_vars

(***************************************************************************)
(* main.py: the handlers of the application on the one event loop of       *)
(* uvicorn.  Every handler is an async def that shares the module's        *)
(* vector_store; the loop runs one task at a time and takes another only   *)
(* where the running one awaits.                                           *)
(***************************************************************************)
MaxInflight == 2    \* tasks the event loop holds at a time

\* delete_document awaiting between the new index and its rows
AwaitsInRebuild(op, pc) == op = "delete_document" /\ pc = "index_add"

\* the statements of a handler at which it awaits and the loop may run another
\* task: process_document, delete_document, query_documents,
\* get_document_chunks and get_stats contain no await expression
Awaits(op, pc) == FALSE

\* text_chunker.chunk_document for the text of document d
ChunksOf(d) ==
    IF d = "d1" THEN <<ChunkMetadata("d1", 0), ChunkMetadata("d1", 1)>>
    ELSE <<ChunkMetadata(d, 0)>>

Questions == {<<"question", "near">>, <<"question", "far">>}

\* Embedder.embed_text: a pure function of the text
EmbedText(text) ==
    [k \in 1..embedding_dim |->
        IF text[1] = "question"
        THEN (IF text[2] = "near" THEN 0 ELSE 2)
        ELSE (IF text = ChunkMetadata("d1", 0).text THEN 0 ELSE 1)]

\* Embedder.embed_batch: vector i belongs to text i
EmbedBatch(texts) == [i \in DOMAIN texts |-> EmbedText(texts[i])]

\* models.QueryRequest: doc_ids is Optional, filtered says whether it is given
QueryRequests ==
    {[question |-> q, top_k |-> MaxTopK, filtered |-> f[1], doc_ids |-> f[2]] :
        q \in Questions, f \in {<<FALSE, <<>>>>, <<TRUE, <<"d1">>>>}}

DocIdsOf(query) == IF query.filtered THEN query.doc_ids ELSE None

\* the requests a client sends
Requests ==
    {NewTask("upload_document", "", NoQuery), NewTask("get_stats", "", NoQuery)}
    \cup {NewTask("delete_document", d, NoQuery) : d \in DocIdValues}
    \cup {NewTask("get_document_chunks", d, NoQuery) : d \in DocIdValues}
    \cup {NewTask("query_documents", "", query) : query \in QueryRequests}

\* a request arrives: the loop holds a task for its handler
Accept ==
    /\ UNCHANGED pureVars
    /\ Cardinality(inflight) < MaxInflight
    /\ \E r \in Requests :
          /\ r \notin inflight
          /\ r.op = "upload_document" =>
                Cardinality(issued) + (IF current.op = "upload_document" THEN 1 ELSE 0)
                    < Cardinality(DocIdValues)
          /\ inflight' = inflight \cup {r}
    /\ UNCHANGED <<index, metadata, last, emptied, documents_db, issued, disk,
                   current, committed>>

\* the loop takes a task it holds and runs it
Dispatch ==
    /\ UNCHANGED pureVars
    /\ current.op = "none"
    /\ last.op = "idle"
    /\ \E t \in inflight :
          /\ current' = t
          /\ inflight' = inflight \ {t}
    /\ UNCHANGED <<index, metadata, last, emptied, documents_db, issued, disk,
                   committed>>

\* the running task goes on to its next statement, or waits where it awaits
Proceed(t) ==
    IF Awaits(t.op, t.pc)
    THEN current' = NoTask /\ inflight' = inflight \cup {t}
    ELSE current' = t /\ inflight' = inflight

\* the running task ends, by returning or by an exception
Finish == current' = NoTask /\ inflight' = inflight

\* upload_document: a new doc_id, its DocumentMetadata with status UPLOADED,
\* and the background task that processes it
UploadDocumentHandler ==
    /\ UNCHANGED pureVars
    /\ current.op = "upload_document"
    /\ \E d \in DocIdValues \ issued :
          /\ issued' = issued \cup {d}
          /\ documents_db' = [documents_db EXCEPT ![d] = "uploaded"]
          /\ inflight' = inflight \cup {NewTask("process_document", d, NoQuery)}
    /\ current' = NoTask
    /\ UNCHANGED <<index, metadata, last, emptied, disk, committed>>

\* an except clause that raises again without recording the failure
ProcessFailedUnrecorded(d) == Finish /\ UNCHANGED documents_db

\* the except clause of process_document: status FAILED (a KeyError when the
\* document is no key), and the exception is raised again
ProcessFailed(d) ==
    /\ documents_db' = IF documents_db[d] = Absent THEN documents_db
                       ELSE [documents_db EXCEPT ![d] = "failed"]
    /\ Finish

\* a process_document that records COMPLETED once the entities are extracted
StatusAfterExtractCompleted(pc) ==
    CASE pc = "begin" -> "processing"
      [] pc = "ocr" -> "ocr_complete"
      [] pc = "extract" -> "completed"
      [] pc = "complete" -> "completed"

\* the ProcessingStatus process_document assigns after the step at pc
StatusAfter(pc) ==
    CASE pc = "begin" -> "processing"
      [] pc = "ocr" -> "ocr_complete"
      [] pc = "extract" -> "extraction_complete"
      [] pc = "complete" -> "completed"

\* process_document, statement by statement
ProcessDocumentTask ==
    /\ UNCHANGED pureVars
    /\ current.op = "process_document"
    /\ LET t == current
           d == t.doc_id
           chunks == ChunksOf(d)
           embeddings == EmbedBatch([i \in DOMAIN chunks |-> chunks[i].text])
           status(st, pc) ==
               IF documents_db[d] = Absent
               THEN ProcessFailed(d)
               ELSE /\ documents_db' = [documents_db EXCEPT ![d] = st]
                    /\ Proceed([t EXCEPT !.pc = pc])
       IN CASE t.pc = "begin" ->
                 /\ status(StatusAfter(t.pc), "ocr")
                 /\ UNCHANGED <<index, metadata, emptied, disk, committed>>
            [] t.pc = "ocr" ->
                 /\ \E ok \in BOOLEAN :
                       IF ok THEN status(StatusAfter(t.pc), "extract")
                       ELSE ProcessFailed(d)
                 /\ UNCHANGED <<index, metadata, emptied, disk, committed>>
            [] t.pc = "extract" ->
                 /\ \E ok \in BOOLEAN :
                       IF ok THEN status(StatusAfter(t.pc), "chunk_embed")
                       ELSE ProcessFailed(d)
                 /\ UNCHANGED <<index, metadata, emptied, disk, committed>>
            [] t.pc = "chunk_embed" ->
                 /\ \E ok \in BOOLEAN :
                       IF ok
                       THEN /\ Proceed([t EXCEPT !.pc = "index_add"])
                            /\ UNCHANGED documents_db
                       ELSE ProcessFailed(d)
                 /\ UNCHANGED <<index, metadata, emptied, disk, committed>>
            [] t.pc = "index_add" ->
                 \* add_embeddings up to self.index.add(embeddings), or an
                 \* exception of add_embeddings before it has added a row
                 /\ \E ok \in BOOLEAN :
                       IF ok
                       THEN /\ index' = index \o [i \in DOMAIN embeddings |->
                                                     AsFloat32(embeddings[i])]
                            /\ emptied' = FALSE
                            /\ Proceed([t EXCEPT !.pc = "append", !.i = 0])
                            /\ UNCHANGED documents_db
                       ELSE /\ ProcessFailed(d)
                            /\ UNCHANGED <<index, emptied>>
                 /\ UNCHANGED <<metadata, disk, committed>>
            [] t.pc = "append" ->
                 \* one turn of the loop over the chunks
                 /\ metadata' = Append(metadata, MetadataDict(chunks[t.i + 1]))
                 /\ IF t.i + 1 = Len(chunks)
                    THEN /\ committed' = Store(index, metadata')
                         /\ Proceed([t EXCEPT !.pc = "save_index", !.i = 0])
                    ELSE /\ committed' = committed
                         /\ Proceed([t EXCEPT !.i = t.i + 1])
                 /\ UNCHANGED <<index, emptied, documents_db, disk>>
            [] t.pc = "save_index" ->
                 \* faiss.write_index, or the OSError it raises
                 /\ \E ok \in BOOLEAN :
                       IF ok
                       THEN /\ disk' = [disk EXCEPT !.index = index, !.has_index = TRUE]
                            /\ Proceed([t EXCEPT !.pc = "save_metadata"])
                            /\ UNCHANGED documents_db
                       ELSE /\ ProcessFailed(d)
                            /\ UNCHANGED disk
                 /\ UNCHANGED <<index, metadata, emptied, committed>>
            [] t.pc = "save_metadata" ->
                 \* json.dump of the metadata, or the OSError of open()
                 /\ \E ok \in BOOLEAN :
                       IF ok
                       THEN /\ disk' = [disk EXCEPT !.metadata = metadata,
                                                     !.has_metadata = TRUE]
                            /\ Proceed([t EXCEPT !.pc = "complete"])
                            /\ UNCHANGED documents_db
                       ELSE /\ ProcessFailed(d)
                            /\ UNCHANGED disk
                 /\ UNCHANGED <<index, metadata, emptied, committed>>
            [] t.pc = "complete" ->
                 /\ IF documents_db[d] = Absent
                    THEN ProcessFailed(d)
                    ELSE /\ documents_db' = [documents_db EXCEPT ![d] = StatusAfter(t.pc)]
                         /\ Finish
                 /\ UNCHANGED <<index, metadata, emptied, disk, committed>>
    /\ UNCHANGED <<last, issued>>

\* the delete_document endpoint, statement by statement: the document leaves
\* documents_db, VectorStore.delete_document rebuilds the index, save()
DeleteDocumentHandler ==
    /\ UNCHANGED pureVars
    /\ current.op = "delete_document"
    /\ LET t == current
           d == t.doc_id
       IN CASE t.pc = "begin" ->
                 /\ IF documents_db[d] = Absent
                    THEN \* HTTPException 404
                         Finish /\ UNCHANGED documents_db
                    ELSE /\ documents_db' = [documents_db EXCEPT ![d] = Absent]
                         /\ Proceed([t EXCEPT !.pc = "rebuild"])
                 /\ UNCHANGED <<index, metadata, emptied, disk, committed>>
            [] t.pc = "rebuild" ->
                 \* indices_to_keep, old_vectors and the new IndexFlatL2
                 /\ LET keep == IndicesToKeep(metadata, d, 1)
                    IN IF Len(keep) = Len(metadata)
                       THEN /\ Proceed([t EXCEPT !.pc = "save_index"])
                            /\ UNCHANGED index
                       ELSE IF \E k \in DOMAIN keep : keep[k] > ntotal(index)
                       THEN \* self.index.reconstruct(i) raises for a row the
                            \* index does not hold
                            /\ Finish
                            /\ UNCHANGED index
                       ELSE /\ index' = <<>>
                            /\ Proceed([t EXCEPT
                                  !.pc = IF keep # <<>> THEN "index_add" ELSE "metadata",
                                  !.indices_to_keep = keep,
                                  !.old_vectors = [k \in DOMAIN keep |->
                                                      Reconstruct(index, keep[k])]])
                 /\ UNCHANGED <<metadata, emptied, documents_db, disk, committed>>
            [] t.pc = "index_add" ->
                 /\ index' = index \o [k \in DOMAIN t.old_vectors |->
                                          AsFloat32(t.old_vectors[k])]
                 /\ Proceed([t EXCEPT !.pc = "metadata"])
                 /\ UNCHANGED <<metadata, emptied, documents_db, disk, committed>>
            [] t.pc = "metadata" ->
                 /\ IF \A k \in DOMAIN t.indices_to_keep :
                          t.indices_to_keep[k] <= Len(metadata)
                    THEN /\ metadata' = [k \in DOMAIN t.indices_to_keep |->
                                            metadata[t.indices_to_keep[k]]]
                         /\ committed' = Store(index, metadata')
                         /\ emptied' = (emptied \/ index = <<>>)
                         /\ Proceed([t EXCEPT !.pc = "save_index",
                                              !.indices_to_keep = <<>>,
                                              !.old_vectors = <<>>])
                    ELSE \* IndexError
                         /\ Finish
                         /\ UNCHANGED <<metadata, committed, emptied>>
                 /\ UNCHANGED <<index, documents_db, disk>>
            [] t.pc = "save_index" ->
                 /\ disk' = [disk EXCEPT !.index = index, !.has_index = TRUE]
                 /\ Proceed([t EXCEPT !.pc = "save_metadata"])
                 /\ UNCHANGED <<index, metadata, emptied, documents_db, committed>>
            [] t.pc = "save_metadata" ->
                 /\ disk' = [disk EXCEPT !.metadata = metadata, !.has_metadata = TRUE]
                 /\ Finish
                 /\ UNCHANGED <<index, metadata, emptied, documents_db, committed>>
    /\ UNCHANGED <<last, issued>>

\* query_documents: RAGEngine.query embeds the question and searches the store
QueryDocumentsHandler ==
    /\ UNCHANGED pureVars
    /\ current.op = "query_documents"
    /\ \E tie \in TieOrders :
          LET query == current.query
              query_embedding == EmbedText(query.question)
              out == SearchOutcome(index, metadata, query_embedding, query.top_k,
                                   DocIdsOf(query), tie)
          IN last' = Call("search",
                          [query_embedding |-> query_embedding,
                           top_k |-> query.top_k, doc_ids |-> DocIdsOf(query)],
                          out.raised, out.result)
    /\ Finish
    /\ UNCHANGED <<index, metadata, emptied, documents_db, issued, disk, committed>>

\* get_document_chunks: 404 for a document that is no key of documents_db
GetDocumentChunksHandler ==
    /\ UNCHANGED pureVars
    /\ current.op = "get_document_chunks"
    /\ last' = IF documents_db[current.doc_id] = Absent
               THEN last
               ELSE Call("get_chunks_by_doc_id", [doc_id |-> current.doc_id], None,
                         GetChunksByDocIdResult(metadata, current.doc_id))
    /\ Finish
    /\ UNCHANGED <<index, metadata, emptied, documents_db, issued, disk, committed>>

\* the get_stats endpoint
GetStatsHandler ==
    /\ UNCHANGED pureVars
    /\ current.op = "get_stats"
    /\ last' = Call("get_stats", None, None, GetStatsResult(index, metadata))
    /\ Finish
    /\ UNCHANGED <<index, metadata, emptied, documents_db, issued, disk, committed>>

LoopNext ==
    \/ Accept
    \/ Dispatch
    \/ UploadDocumentHandler
    \/ ProcessDocumentTask
    \/ DeleteDocumentHandler
    \/ QueryDocumentsHandler
    \/ GetDocumentChunksHandler
    \/ GetStatsHandler
    \/ Return

SpecLoop == LoopInit /\ [][LoopNext]_vars

(***************************************************************************)
(* The process is killed and started again: the module globals of main.py  *)
(* are built anew and VectorStore.__init__ reads what save() left on disk. *)
(***************************************************************************)
\* VectorStore.__init__: the index artifact is read if it exists, else a new
\* IndexFlatL2; the metadata artifact is read if it exists, else []. Neither
\* branch looks at the other artifact.
Load(d) ==
    [raised |-> None,
     index |-> IF d.has_index THEN d.index ELSE <<>>,
     metadata |-> IF d.has_metadata THEN d.metadata ELSE <<>>]

\* the process dies wherever it is, its tasks and documents_db with it, and a
\* new process imports main.py
Restart ==
    /\ UNCHANGED pureVars
    /\ last.op = "idle"
    /\ LET out == Load(disk)
       IN /\ index' = out.index
          /\ metadata' = out.metadata
          /\ committed' = Store(out.index, out.metadata)
          /\ last' = [op |-> "__init__", args |-> None, pre |-> None,
                      raised |-> out.raised, result |-> None]
    /\ emptied' = FALSE
    /\ documents_db' = [d \in DocIdValues |-> Absent]
    /\ inflight' = {}
    /\ current' = NoTask
    /\ UNCHANGED <<issued, disk>>

RestartNext ==
    \/ LoopNext
    \/ Restart

SpecRestart == LoopInit /\ [][RestartNext]_vars

(***************************************************************************)
(* TextChunker on its own: a call of chunk_document and its return.        *)
(***************************************************************************)
ChunkInit ==
    /\ index = <<>>
    /\ metadata = <<>>
    /\ last = Idle
    /\ emptied = FALSE
    /\ documents_db = [d \in DocIdValues |-> Absent]
    /\ issued = {}
    /\ disk = NoArtifacts
    /\ inflight = {}
    /\ current = NoTask
    /\ committed = Store(<<>>, <<>>)
    /\ IsChunkerCall(chunker)
    /\ rag = NoQuerying

ChunkDocument ==
    /\ chunker.phase = "called"
    /\ LET out == ChunkDocumentOutcome(chunker.text, chunker.paged, chunker.pages,
                                       chunker.config)
       IN chunker' = [chunker EXCEPT !.phase = "returned", !.passes = out.passes,
                                     !.dropped = out.dropped, !.built = out.built,
                                     !.counts = out.counts, !.result = out.result]
    /\ UNCHANGED rag
    /\ UNCHANGED storeVars
    /\ UNCHANGED appVars

ChunkNext == ChunkDocument

SpecChunk == ChunkInit /\ [][ChunkNext]_vars

(***************************************************************************)
(* get_chunk_context on the chunks chunk_document returned.                *)
(***************************************************************************)
GetChunkContext ==
    /\ chunker.phase = "returned"
    /\ \E chunk \in Range(chunker.result) \cup {OtherChunk},
          all_chunks \in AllChunksOf(chunker.result),
          context_size \in 0..MaxContext :
          chunker' = [chunker EXCEPT
                         !.phase = "context",
                         !.context = ContextCall(chunk, all_chunks, context_size,
                                         GetChunkContextOutcome(chunk, all_chunks,
                                                                context_size))]
    /\ UNCHANGED rag
    /\ UNCHANGED storeVars
    /\ UNCHANGED appVars

ContextNext == ChunkDocument \/ GetChunkContext

SpecContext == ChunkInit /\ [][ContextNext]_vars

(***************************************************************************)
(* RAGEngine.query: the embedder and the generative backend are the        *)
(* environment, so what they do is chosen with the call.                   *)
(***************************************************************************)
\* questions that are empty or hold whitespace only
BlankQuestions == {<<>>, <<" ">>, <<"\n", " ">>}

\* the questions claim_engine builds around a policy id
CoverageQuestion == <<"question", "far", "What is the coverage limit and exclusions for policy">>
SummaryQuestion == <<"question", "far", "Summarize the coverage details for policy">>

\* embedder.embed_text returns the vector or raises what model.encode raises
EmbedderBehaviours == {"ok", "fails"}

\* the text a backend that answers puts in its response
BackendStrings == {<<>>, <<" ">>, <<"answer">>, <<"\n", "answer", " ">>}

\* what the generative backend does with a request
BackendBehaviours ==
    {[kind |-> "response", text |-> t] : t \in BackendStrings}
    \cup {[kind |-> k, text |-> <<>>] :
            k \in {"ConnectionError", "Timeout", "status", "missing_field", "malformed"}}

InsufficientAnswer ==
    <<"I don't have enough information to answer this question.",
      "Please upload relevant documents first.">>

\* the context of the prompt: "[Source i]: text" for each retrieved chunk
Context(search_results) ==
    [i \in DOMAIN search_results |-> <<"Source", i, search_results[i].metadata.text>>]

\* _generate_with_openai and _generate_with_ollama: the stripped text of the
\* response, or Exception for whatever else the backend does
GenerateWithLLM(backend) ==
    IF backend.kind = "response"
    THEN [raised |-> None, result |-> Strip(backend.text)]
    ELSE [raised |-> "Exception", result |-> <<>>]

\* _generate_fallback_answer: the chunk texts of the model hold none of the
\* fields its keyword branches look for, so it returns its default answer
GenerateFallbackAnswer(question, context) ==
    <<"Based on the retrieved documents:", context, "(Note: LLM is currently unavailable.)">>

\* _generate_answer: the answer and whether the fallback produced it
GenerateAnswer(question, context, backend) ==
    LET out == GenerateWithLLM(backend)
    IN IF out.raised = None
       THEN [answer |-> out.result, fallback_calls |-> 0]
       ELSE [answer |-> GenerateFallbackAnswer(question, context), fallback_calls |-> 1]

\* models.SourceChunk of a search result
SourceChunk(found) ==
    [text |-> found.metadata.text,
     doc_id |-> found.metadata.doc_id,
     filename |-> found.metadata.filename,
     doc_type |-> found.metadata.doc_type,
     page_number |-> found.metadata.page_number,
     similarity_score |-> found.score]

\* sum(s.similarity_score for s in sources), as a fraction
RECURSIVE SumScores(_, _)
SumScores(sources, n) ==
    IF n = 0 THEN [num |-> 0, den |-> 1]
    ELSE LET rest == SumScores(sources, n - 1)
             score == sources[n].similarity_score
         IN [num |-> rest.num * score.den + score.num * rest.den,
             den |-> rest.den * score.den]

\* avg_similarity * 1.2 without the cap at 1.0
ConfidenceUncapped(sources) ==
    LET total == SumScores(sources, Len(sources))
    IN [num |-> 6 * total.num, den |-> 5 * total.den * Len(sources)]

\* min(avg_similarity * 1.2, 1.0) of a non-empty list of sources
Confidence(sources) ==
    LET total == SumScores(sources, Len(sources))
        scaled == [num |-> 6 * total.num, den |-> 5 * total.den * Len(sources)]
    IN IF scaled.num >= scaled.den THEN [num |-> 1, den |-> 1] ELSE scaled

\* query that goes on to generate an answer whatever search returned
NoResultsNever(search_results) == FALSE

\* if not search_results
NoResults(search_results) == search_results = <<>>

\* what a call of query did before it stopped
QueryResult(embedded, searched, search_results, llm_calls, fallback_calls, raised, response) ==
    [embedded |-> embedded, searched |-> searched, search_results |-> search_results,
     llm_calls |-> llm_calls, fallback_calls |-> fallback_calls,
     raised |-> raised, response |-> response]

\* RAGEngine.query: the exception it raises or the QueryResponse it returns
QueryOutcome(idx, md, question, doc_ids, top_k, embedder, backend, tie) ==
    IF embedder = "fails"
    THEN QueryResult(<<question>>, 0, <<>>, 0, 0, "RuntimeError", NoResponse)
    ELSE LET found == SearchOutcome(idx, md, EmbedText(question), top_k, doc_ids, tie)
         IN IF found.raised # None
            THEN QueryResult(<<question>>, 1, <<>>, 0, 0, found.raised, NoResponse)
            ELSE IF NoResults(found.result)
            THEN QueryResult(<<question>>, 1, found.result, 0, 0, None,
                             [answer |-> InsufficientAnswer, sources |-> <<>>,
                              confidence |-> [num |-> 0, den |-> 1]])
            ELSE LET sources == [i \in DOMAIN found.result |-> SourceChunk(found.result[i])]
                     out == GenerateAnswer(question, Context(found.result), backend)
                 IN IF Len(sources) = 0
                    THEN \* sum(...) / len(sources) divides by zero
                         QueryResult(<<question>>, 1, found.result, 1, out.fallback_calls,
                                     "ZeroDivisionError", NoResponse)
                    ELSE QueryResult(<<question>>, 1, found.result, 1, out.fallback_calls,
                                     None,
                                     [answer |-> out.answer, sources |-> sources,
                                      confidence |-> Confidence(sources)])

\* the record of a call of query by one of its callers
Querying(caller, question, top_k, doc_ids, embedder, backend, entered, out, status_code, raised) ==
    [phase |-> "returned", caller |-> caller, question |-> question, top_k |-> top_k,
     filtered |-> doc_ids # None, doc_ids |-> IF doc_ids = None THEN <<>> ELSE doc_ids,
     embedder |-> embedder, backend |-> backend,
     entered |-> entered, embedded |-> out.embedded, searched |-> out.searched,
     search_results |-> out.search_results,
     llm_calls |-> out.llm_calls, fallback_calls |-> out.fallback_calls,
     raised |-> raised, status_code |-> status_code, response |-> out.response]

\* query_documents that turns away the empty string only
RejectsEmpty(question) == question = <<>>

\* if not request.question.strip()
Rejects(question) == Strip(question) = <<>>

\* the query_documents endpoint: HTTP 400 for a blank question, else the
\* response of rag_engine.query, or HTTP 500 when query raises
QueryDocuments ==
    /\ rag.phase = "idle"
    /\ \E question \in Questions \cup BlankQuestions, top_k \in 1..MaxTopK,
          doc_ids \in DocIdsValues, embedder \in EmbedderBehaviours,
          backend \in BackendBehaviours, tie \in TieOrders :
          rag' = IF Rejects(question)
                 THEN Querying("query_documents", question, top_k, doc_ids, embedder,
                               backend, FALSE,
                               QueryResult(<<>>, 0, <<>>, 0, 0, None, NoResponse),
                               400, "HTTPException")
                 ELSE LET out == QueryOutcome(index, metadata, question, doc_ids, top_k,
                                              embedder, backend, tie)
                      IN Querying("query_documents", question, top_k, doc_ids, embedder,
                                  backend, TRUE, out,
                                  IF out.raised = None THEN 200 ELSE 500, out.raised)
    /\ UNCHANGED <<storeVars, appVars, chunker>>

\* a caller in claim_engine: rag_engine.query(query, top_k=3) inside try/except
PolicyQuery(caller, question) ==
    /\ rag.phase = "idle"
    /\ \E embedder \in EmbedderBehaviours, backend \in BackendBehaviours,
          tie \in TieOrders :
          LET out == QueryOutcome(index, metadata, question, None, 3,
                                  embedder, backend, tie)
          IN rag' = Querying(caller, question, 3, None, embedder, backend, TRUE, out,
                             0, out.raised)
    /\ UNCHANGED <<storeVars, appVars, chunker>>

FetchPolicyInfo == PolicyQuery("_fetch_policy_info", CoverageQuestion)

GetPolicySummary == PolicyQuery("get_policy_summary", SummaryQuestion)

\* the caller has its answer
QueryReturn ==
    /\ rag.phase = "returned"
    /\ rag' = NoQuerying
    /\ UNCHANGED <<storeVars, appVars, chunker>>

\* rag_engine over the store the process constructed
QueryInit ==
    /\ \E s \in ConstructedStores :
          /\ index = s.index
          /\ metadata = s.metadata
    /\ last = Idle
    /\ emptied = FALSE
    /\ documents_db = [d \in DocIdValues |-> Absent]
    /\ issued = {}
    /\ disk = NoArtifacts
    /\ inflight = {}
    /\ current = NoTask
    /\ committed = Store(<<>>, <<>>)
    /\ chunker = NoChunking
    /\ rag = NoQuerying

QueryNext ==
    \/ QueryDocuments
    \/ FetchPolicyInfo
    \/ GetPolicySummary
    \/ QueryReturn

SpecQuery == QueryInit /\ [][QueryNext]_vars

(***************************************************************************)
(* Properties of the VectorStore.                                          *)
(***************************************************************************)
\* the (vector, metadata) pairs of a store, in row order
Rows(store) == [i \in DOMAIN store.metadata |-> <<store.index[i], store.metadata[i]>>]

Now == Store(index, metadata)

MetadataFields ==
    {"chunk_id", "doc_id", "doc_type", "filename", "page_number", "chunk_index", "text"}

\* C1: after every call, failed or not, the metadata list has as many records as
\* the index has rows, and the ordinals of the rows are exactly 0..N-1
IndexContiguity ==
    /\ Len(metadata) = ntotal(index)
    /\ {i - 1 : i \in DOMAIN index} = 0..(Len(metadata) - 1)

\* a delete_document call that removed rows and kept others
IndexContiguityWitness ==
    /\ last.op = "delete"
    /\ Len(index) > 0
    /\ Len(last.pre.index) > Len(index)

\* C2: after delete_document(doc_id), get_chunks_by_doc_id(doc_id) is empty and
\* total_chunks is lower by exactly the number of chunks doc_id had
DeleteCompleteness ==
    last.op = "delete" =>
        LET d == last.args.doc_id
            had == Len(GetChunksByDocIdResult(last.pre.metadata, d))
        IN /\ GetChunksByDocIdResult(metadata, d) = <<>>
           /\ GetStatsResult(index, metadata).total_chunks
                = GetStatsResult(last.pre.index, last.pre.metadata).total_chunks - had

\* a delete_document call that removed two chunks of a document and kept a row
DeleteCompletenessWitness ==
    /\ last.op = "delete"
    /\ Len(GetChunksByDocIdResult(last.pre.metadata, last.args.doc_id)) >= 2
    /\ Len(index) > 0

\* C3: delete_document(d) leaves the (vector, metadata) pairs of the other
\* documents, in their order, each metadata record with its own vector, and
\* leaves the store unchanged when no row has doc_id d
DeleteFrame ==
    last.op = "delete" =>
        LET d == last.args.doc_id
        IN /\ Len(index) = Len(metadata)
           /\ Rows(Now) = SelectSeq(Rows(last.pre), LAMBDA r : r[2].doc_id # d)
           /\ (\A i \in DOMAIN last.pre.metadata : last.pre.metadata[i].doc_id # d)
                => Now = last.pre

\* a delete_document call that removed a row from between two retained rows
\* that hold different vectors
DeleteFrameWitness ==
    /\ last.op = "delete"
    /\ Len(last.pre.metadata) >= 3
    /\ last.pre.metadata[1].doc_id # last.args.doc_id
    /\ last.pre.metadata[2].doc_id = last.args.doc_id
    /\ last.pre.metadata[3].doc_id # last.args.doc_id
    /\ last.pre.index[1] # last.pre.index[3]
    /\ last.pre.index[1] # last.pre.index[2]

\* C4: add_embeddings with a number of vectors other than the number of chunks,
\* or with vectors of another width than the index, raises and leaves the index
\* rows and the metadata list as they were
AddRejectsMismatch ==
    (/\ last.op = "add"
     /\ \/ Len(last.args.embeddings) # Len(last.args.chunks)
        \/ \E i \in DOMAIN last.args.embeddings :
              Len(last.args.embeddings[i]) # embedding_dim)
    => /\ last.raised # None
       /\ index = last.pre.index
       /\ metadata = last.pre.metadata

\* an add_embeddings call on a populated store with as many vectors as chunks,
\* the vectors wider than the index
AddRejectsMismatchWitness ==
    /\ last.op = "add"
    /\ Len(last.args.embeddings) = Len(last.args.chunks)
    /\ Len(last.args.embeddings) >= 1
    /\ Len(last.args.embeddings[1]) # embedding_dim
    /\ Len(last.pre.index) > 0

\* C5: a successful add_embeddings of N vectors and N chunks leaves the stored
\* pairs at their ordinals and appends N rows and N records, row oldN + i
\* holding vector i and the fields of chunk i
AddFrame ==
    (last.op = "add" /\ last.raised = None) =>
        LET N == Len(last.args.chunks)
            oldN == Len(last.pre.index)
        IN /\ Len(last.args.embeddings) = N
           /\ Len(index) = oldN + N
           /\ Len(metadata) = oldN + N
           /\ \A i \in 1..oldN : /\ index[i] = last.pre.index[i]
                                 /\ metadata[i] = last.pre.metadata[i]
           /\ \A i \in 1..N :
                /\ index[oldN + i] = last.args.embeddings[i]
                /\ DOMAIN metadata[oldN + i] = MetadataFields
                /\ \A f \in MetadataFields :
                      metadata[oldN + i][f] = last.args.chunks[i][f]

\* a successful add_embeddings of two different chunks with different vectors
\* to a populated store, one of the chunks with a page number
AddFrameWitness ==
    /\ last.op = "add"
    /\ last.raised = None
    /\ Len(last.pre.index) > 0
    /\ Len(last.args.chunks) = 2
    /\ last.args.chunks[1] # last.args.chunks[2]
    /\ last.args.embeddings[1] # last.args.embeddings[2]
    /\ last.args.chunks[2].page_number # <<>>

\* the ordinals of the rows a search returned
ResultOrdinals(results) == {results[i].ordinal : i \in DOMAIN results}

\* the squared distance of the row with ordinal i to the query q
RowDistance(store, i, q) == SquaredL2(store.index[i + 1], q)

\* the sets of k rows of a store nearest to q (more than one when rows tie)
NearestSets(store, q, k) ==
    {P \in SUBSET (0..(Len(store.index) - 1)) :
        /\ Cardinality(P) = k
        /\ \A i \in P : \A j \in (0..(Len(store.index) - 1)) \ P :
              RowDistance(store, i, q) <= RowDistance(store, j, q)}

\* C6: whenever doc_ids is supplied to search, an empty list included, every
\* returned result's doc_id is one of doc_ids
SearchFilterCorrect ==
    (last.op = "search" /\ last.raised = None /\ last.args.doc_ids # None) =>
        \A i \in DOMAIN last.result :
            last.result[i].metadata.doc_id \in Range(last.args.doc_ids)

\* C7: the results of search are in non-increasing order of score, each score
\* is 1 / (1 + d) for the squared distance d of its row to the query and lies
\* in (0, 1], and no row comes after a row that is farther from the query
SearchOrdering ==
    (last.op = "search" /\ last.raised = None) =>
        LET r == last.result
            q == last.args.query_embedding
            d(i) == RowDistance(Now, r[i].ordinal, q)
        IN /\ \A i \in DOMAIN r :
                /\ r[i].score.den > 0
                /\ r[i].score.num * (1 + d(i)) = r[i].score.den
                /\ r[i].score.num > 0
                /\ r[i].score.num <= r[i].score.den
                /\ r[i].metadata = metadata[r[i].ordinal + 1]
           /\ \A i, j \in DOMAIN r :
                i < j => /\ ScoreGeq(r[i].score, r[j].score)
                         /\ d(i) <= d(j)

\* a filtered search that returned two rows at different distances, neither at
\* distance 0, the nearer one stored after the farther one
SearchOrderingWitness ==
    /\ last.op = "search"
    /\ last.raised = None
    /\ Truthy(last.args.doc_ids)
    /\ Len(last.result) = 2
    /\ ~ScoreGeq(last.result[2].score, last.result[1].score)
    /\ last.result[1].score.den > 1
    /\ last.result[1].ordinal > last.result[2].ordinal

\* C8: search returns at most top_k results, each a distinct stored row, and
\* when doc_ids is supplied and fewer than top_k rows of the pool of the
\* min(10 * top_k, N) nearest rows pass the filter, exactly those are returned
SearchNeverPads ==
    (last.op = "search" /\ last.raised = None) =>
        LET r == last.result
            N == Len(index)
        IN /\ Len(r) <= last.args.top_k
           /\ \A i, j \in DOMAIN r : i # j => r[i].ordinal # r[j].ordinal
           /\ \A i \in DOMAIN r : r[i].ordinal \in 0..(N - 1)
           /\ (last.args.doc_ids # None /\ N > 0) =>
                \E P \in NearestSets(Now, last.args.query_embedding,
                                     Min(OVERFETCH * last.args.top_k, N)) :
                    LET passing == {i \in P : metadata[i + 1].doc_id
                                                 \in Range(last.args.doc_ids)}
                    IN /\ ResultOrdinals(r) \subseteq passing
                       /\ Cardinality(passing) < last.args.top_k
                            => ResultOrdinals(r) = passing

\* C9: on an index of zero rows, new or emptied by delete_document, search
\* returns an empty list and does not raise, whatever the query, top_k and
\* doc_ids, and the other operations work: add_embeddings of matching arrays
\* adds its rows, delete_document, get_chunks_by_doc_id and get_stats return
EmptyIndexUsable ==
    /\ ntotal(index) = 0 =>
          \A q \in QueryVectors, top_k \in TopKValues,
             doc_ids \in DocIdsValues, tie \in TieOrders :
              LET out == SearchOutcome(index, metadata, q, top_k, doc_ids, tie)
              IN out.raised = None /\ out.result = <<>>
    /\ (last.op # "idle" /\ ntotal(last.pre.index) = 0) =>
          /\ last.op = "search" => (last.raised = None /\ last.result = <<>>)
          /\ last.op = "delete" => (last.raised = None /\ Now = last.pre)
          /\ last.op = "get_chunks_by_doc_id" =>
                (last.raised = None /\ last.result = <<>>)
          /\ last.op = "get_stats" =>
                (last.raised = None /\ last.result.total_chunks = 0
                                    /\ last.result.total_documents = 0)
          /\ (/\ last.op = "add"
              /\ Len(last.args.embeddings) = Len(last.args.chunks)
              /\ \A i \in DOMAIN last.args.embeddings :
                    Len(last.args.embeddings[i]) = embedding_dim)
                => (last.raised = None
                    /\ ntotal(index) = Len(last.args.chunks))

\* a search with a query of the wrong width and top_k = 0 on an index that
\* delete_document emptied
EmptyIndexUsableWitness ==
    /\ emptied
    /\ last.op = "search"
    /\ last.args.top_k = 0
    /\ Len(last.args.query_embedding) # embedding_dim
    /\ last.args.doc_ids = <<"d1">>
    /\ last.result = <<>>

(***************************************************************************)
(* Properties of the handlers on the event loop.                           *)
(***************************************************************************)
ReadOps == {"search", "get_chunks_by_doc_id", "get_stats"}

MutatingOps == {"process_document", "delete_document"}

\* C10: with add_embeddings or delete_document in flight beside search,
\* get_chunks_by_doc_id or get_stats, the store a read sees is the store as the
\* last completed mutation left it: as many rows as metadata records, every
\* row the vector of its own record's text
NoTornRead ==
    last.op \in ReadOps =>
        /\ Len(last.pre.index) = Len(last.pre.metadata)
        /\ \A i \in DOMAIN last.pre.metadata :
              last.pre.index[i] = EmbedText(last.pre.metadata[i].text)
        /\ last.pre = committed

\* a search that returned rows while the loop held the task of a mutation and
\* the task of another read
NoTornReadWitness ==
    /\ last.op = "search"
    /\ last.result # <<>>
    /\ \E t \in inflight : t.op \in MutatingOps
    /\ \E t \in inflight : t.op = "get_stats"

(***************************************************************************)
(* Properties of the store a new process loads.                            *)
(***************************************************************************)
\* the snapshot on disk is partial: one artifact without the other, or the two
\* of different lengths
PartialSnapshot(d) ==
    \/ d.has_index # d.has_metadata
    \/ Len(d.index) # Len(d.metadata)

\* C11: constructing the VectorStore with neither artifact on disk gives an
\* empty store, and constructing it over a partial snapshot (one artifact
\* missing, or the two of different lengths, as save() leaves them when it is
\* interrupted between its two writes) raises instead of giving a store whose
\* metadata count differs from its row count
LoadRejectsPartialSnapshot ==
    last.op = "__init__" =>
        /\ (~disk.has_index /\ ~disk.has_metadata) =>
              (last.raised = None /\ index = <<>> /\ metadata = <<>>)
        /\ PartialSnapshot(disk) => last.raised # None
        /\ last.raised = None => Len(index) = Len(metadata)

(***************************************************************************)
(* Properties of the TextChunker.                                          *)
(***************************************************************************)
\* chunk_document has returned
Chunked == chunker.phase = "returned"

\* C12: every chunk chunk_document emits has at least min_chunk_size words,
\* whatever the text, the pages list and the configuration
ChunkSizeFloor ==
    Chunked =>
        \A i \in DOMAIN chunker.result :
            Len(chunker.result[i].text) >= chunker.config.min_chunk_size

\* a paged call with a floor above zero that emitted a chunk and dropped one
ChunkSizeFloorWitness ==
    /\ Chunked
    /\ chunker.paged
    /\ chunker.config.min_chunk_size > 0
    /\ chunker.result # <<>>
    /\ \E p \in DOMAIN chunker.dropped : chunker.dropped[p] # <<>>

\* C13: with chunk_overlap = k > 0, of any two chunks of a document emitted one
\* after the other the second begins with the last k words of the first (with
\* all its words when the first has fewer than k)
OverlapInvariant ==
    (Chunked /\ chunker.config.chunk_overlap > 0) =>
        \A i \in 1..(Len(chunker.result) - 1) :
            LET tail == LastWords(chunker.result[i].text, chunker.config.chunk_overlap)
                next == chunker.result[i + 1].text
            IN /\ Len(next) >= Len(tail)
               /\ SubSeq(next, 1, Len(tail)) = tail

\* C14: the chunks one chunk_document call returns have pairwise distinct
\* chunk_ids, also when the document is chunked page by page
ChunkIdsDistinct ==
    Chunked =>
        \A i, j \in DOMAIN chunker.result :
            i # j => chunker.result[i].chunk_id # chunker.result[j].chunk_id

\* C15: the chunks of one chunking pass carry chunk_index 0, 1, ..., n-1 in the
\* order they were emitted, dropped chunks leaving no gap
ChunkIndexContiguous ==
    Chunked =>
        \A p \in DOMAIN chunker.passes :
            \A i \in DOMAIN chunker.passes[p] :
                chunker.passes[p][i].chunk_index = i - 1

\* a pass that emitted two chunks and dropped one
ChunkIndexContiguousWitness ==
    /\ Chunked
    /\ \E p \in DOMAIN chunker.passes :
          /\ Len(chunker.passes[p]) >= 2
          /\ chunker.dropped[p] # <<>>

\* C16: a text of three sentences that total 40 words, chunked with
\* chunk_size 30, min_chunk_size 10 and chunk_overlap 5, gives exactly two
\* chunks, the second beginning with the last 5 words of the first
ScenarioTwoChunks ==
    (/\ Chunked
     /\ ~chunker.paged
     /\ chunker.config = ScenarioConfig
     /\ Len(chunker.text) = 40
     /\ Len(SplitIntoSentences(chunker.text, 1, <<>>, <<>>)) = 3) =>
        /\ Len(chunker.result) = 2
        /\ SubSeq(chunker.result[2].text, 1, 5) = LastWords(chunker.result[1].text, 5)

(***************************************************************************)
(* Properties of RAGEngine.query, under SpecQuery.                         *)
(***************************************************************************)
\* a call of query that got as far as a search that returned
SearchReturned == rag.phase = "returned" /\ rag.searched = 1 /\ rag.raised # "AssertionError"

\* C17: when the search of a query returns no results, query returns the fixed
\* insufficient-information answer with no sources and confidence 0.0, raises
\* nothing, and invokes neither the generative backend nor the fallback.
EmptyRetrievalAnswer ==
    (SearchReturned /\ rag.search_results = <<>>) =>
        /\ rag.raised = None
        /\ rag.response.answer = InsufficientAnswer
        /\ rag.response.sources = <<>>
        /\ rag.response.confidence.num = 0
        /\ rag.llm_calls = 0
        /\ rag.fallback_calls = 0

\* a filtered query over a store that holds rows finds none of the document
\* among the rows it fetched, with a backend that would have failed
EmptyRetrievalAnswerWitness ==
    /\ SearchReturned
    /\ rag.search_results = <<>>
    /\ index # <<>>
    /\ rag.filtered
    /\ rag.backend.kind = "Timeout"
    /\ rag.response.answer = InsufficientAnswer

\* C18: a question that is blank after trimming is rejected with an error
\* before the embedding provider is called: no blank question is ever handed
\* to embed_text or reaches the search of the index.
BlankQuestionRejected ==
    /\ \A i \in DOMAIN rag.embedded : Strip(rag.embedded[i]) # <<>>
    /\ (rag.phase = "returned" /\ Strip(rag.question) = <<>>) =>
           /\ rag.raised = "HTTPException"
           /\ rag.status_code = 400
           /\ ~rag.entered
           /\ rag.embedded = <<>>
           /\ rag.searched = 0

\* a question of whitespace only is turned away over a store that holds rows
BlankQuestionRejectedWitness ==
    /\ rag.phase = "returned"
    /\ rag.question = <<"\n", " ">>
    /\ index # <<>>
    /\ rag.status_code = 400
    /\ rag.embedded = <<>>

\* C19: whatever the generative backend does, query does not raise because of
\* it, and whenever the returned sources are non-empty the returned answer is
\* a non-empty string.
BackendNeverSpoilsAnswer ==
    rag.phase = "returned" =>
        /\ (rag.raised # None => rag.llm_calls = 0)
        /\ (rag.raised = None /\ rag.response.sources # <<>>) =>
               rag.response.answer # <<>>

\* C20: no failure of an external collaborator aborts the query: when the
\* embedding provider or the generative backend fails, a call of query still
\* returns a QueryResponse instead of raising.
CollaboratorFailureTolerated ==
    (rag.phase = "returned" /\ rag.entered) => rag.raised = None

\* C21: for every query that returns at least one source, confidence equals
\* min(1.2 * mean of the sources' similarity scores, 1.0); in every
\* QueryResponse the confidence lies in [0,1], and it is 0.0 exactly when the
\* sources are empty.
ConfidenceFormula ==
    (rag.phase = "returned" /\ rag.raised = None) =>
        LET sources == rag.response.sources
            c == rag.response.confidence
            n == Len(sources)
            total == SumScores(sources, n)
        IN /\ c.den > 0 /\ 0 <= c.num /\ c.num <= c.den
           /\ c.num = 0 <=> sources = <<>>
           /\ n > 0 =>
                 IF 6 * total.num >= 5 * n * total.den
                 THEN c.num = c.den
                 ELSE c.num * 5 * n * total.den = 6 * total.num * c.den

\* two sources of different similarity and a confidence below the cap
ConfidenceFormulaWitness ==
    /\ rag.phase = "returned"
    /\ rag.raised = None
    /\ Len(rag.response.sources) = 2
    /\ rag.response.sources[1].similarity_score # rag.response.sources[2].similarity_score
    /\ rag.response.confidence.num * 2 < rag.response.confidence.den

(***************************************************************************)
(* Properties of process_document, under SpecLoop.                         *)
(***************************************************************************)
\* the doc_ids of the rows the store holds
StoredDocIds == {metadata[i].doc_id : i \in DOMAIN metadata}

\* C22: if a step of process_document throws, the status of the document ends
\* as FAILED and never becomes COMPLETED, and the rows already added to the
\* index are not rolled back.
FailureRecorded ==
    /\ [][(/\ current.op = "process_document"
           /\ current.pc # "complete"
           /\ current'.op = "none"
           /\ documents_db[current.doc_id] # Absent)
            => /\ documents_db'[current.doc_id] = "failed"
               /\ index' = index
               /\ metadata' = metadata]_vars
    /\ [][\A d \in DocIdValues :
             documents_db[d] = "failed" => documents_db'[d] \in {"failed", Absent}]_vars

\* save() threw after add_embeddings: the document is FAILED and its rows are
\* in the index
FailureRecordedWitness ==
    \E d \in DocIdValues :
        /\ documents_db[d] = "failed"
        /\ d \in StoredDocIds
        /\ Len(index) = Len(metadata)
        /\ current.op = "none"

\* C23: a document whose ingestion failed is not presented as queryable: no
\* source a query returns belongs to a document whose status is FAILED (query
\* builds one source from each result of its search).
FailedNotQueryable ==
    (last.op = "search" /\ last.raised = None) =>
        \A i \in DOMAIN last.result :
            documents_db[last.result[i].metadata.doc_id] # "failed"

\* the changes of status the claim allows, and the removal of the document
StatusSteps ==
    {<<Absent, "uploaded">>, <<"uploaded", "processing">>,
     <<"processing", "ocr_complete">>, <<"ocr_complete", "extraction_complete">>,
     <<"extraction_complete", "completed">>}
    \cup {<<st, "failed">> : st \in {"processing", "ocr_complete", "extraction_complete"}}
    \cup {<<st, Absent>> : st \in {"uploaded", "processing", "ocr_complete",
                                   "extraction_complete", "completed", "failed"}}

\* every chunk of document d is a row of the store and both artifacts on disk
\* are the store
StoredAndSaved(d) ==
    /\ \A i \in DOMAIN ChunksOf(d) :
          \E j \in DOMAIN metadata :
              j <= Len(index) /\ metadata[j] = MetadataDict(ChunksOf(d)[i])
    /\ disk.has_index /\ disk.has_metadata
    /\ disk.index = index /\ disk.metadata = metadata

\* C30: the status of a document advances only along uploaded -> processing ->
\* ocr_complete -> extraction_complete -> completed, with failed reachable
\* from any step of processing, and it becomes COMPLETED only after all chunks
\* of the document were added to the store and a save of the store completed
\* after that addition.
StatusOrder ==
    [][\A d \in DocIdValues :
          documents_db'[d] # documents_db[d] =>
              /\ <<documents_db[d], documents_db'[d]>> \in StatusSteps
              /\ documents_db'[d] = "completed" => StoredAndSaved(d)]_vars

\* a document is COMPLETED with its chunks in the store and the store on disk
StatusOrderWitness ==
    \E d \in DocIdValues :
        /\ documents_db[d] = "completed"
        /\ StoredAndSaved(d)
        /\ current.op = "none"

(***************************************************************************)
(* Further properties of TextChunker, under SpecChunk.                     *)
(***************************************************************************)
\* words is a run of consecutive words of text
RunOf(words, text) ==
    \E i \in 1..(Len(text) + 1), j \in 0..Len(text) : SubSeq(text, i, j) = words

\* C24: when pages is supplied, no emitted chunk spans two pages: the words of
\* every chunk, its overlap seed included, come from the text of one page,
\* and the page_number of the chunk is the number of that page.
ChunkWithinPage ==
    (Chunked /\ chunker.paged /\ chunker.pages # <<>>) =>
        /\ Len(chunker.passes) = Len(chunker.pages)
        /\ \A p \in DOMAIN chunker.passes :
              \A i \in DOMAIN chunker.passes[p] :
                  LET chunk == chunker.passes[p][i]
                      page == chunker.pages[p]
                  IN /\ chunk.page_number = <<page.page_number>>
                     /\ \E k \in 0..Len(chunk.text) :
                           /\ RunOf(SubSeq(chunk.text, 1, k), page.text)
                           /\ RunOf(SubSeq(chunk.text, k + 1, Len(chunk.text)), page.text)

\* two pages that each give a chunk, the first page a second chunk that begins
\* with an overlap seed
ChunkWithinPageWitness ==
    /\ Chunked
    /\ chunker.paged
    /\ Len(chunker.pages) = 2
    /\ chunker.config.chunk_overlap > 0
    /\ Len(chunker.passes[1]) = 2
    /\ Len(chunker.passes[2]) >= 1
    /\ chunker.pages[1].text # chunker.pages[2].text

\* the text _chunk_text was given in pass p, and its sentences
PassText(p) ==
    IF chunker.paged /\ chunker.pages # <<>> THEN chunker.pages[p].text ELSE chunker.text

PassSentences(p) == SplitIntoSentences(PassText(p), 1, <<>>, <<>>)

\* no word of the text occurs twice, so that a run of words found in a chunk
\* was copied there
DistinctWords(text) == \A i, j \in DOMAIN text : i # j => text[i] # text[j]

\* C25: an accumulator closed with fewer than min_chunk_size words is dropped
\* and not merged forward: the full text of a dropped chunk never reappears
\* inside a chunk emitted later.
DroppedTextLost ==
    Chunked =>
        \A p \in DOMAIN chunker.passes :
            DistinctWords(PassText(p)) =>
                \A k \in DOMAIN chunker.dropped[p], i \in DOMAIN chunker.passes[p] :
                    i > chunker.dropped[p][k].emitted =>
                        ~RunOf(chunker.dropped[p][k].text, chunker.passes[p][i].text)

\* the sentences of pass p with more than chunk_size and at least
\* min_chunk_size words, by position
OversizedSentences(p) ==
    {n \in DOMAIN PassSentences(p) :
        /\ Len(PassSentences(p)[n]) > chunker.config.chunk_size
        /\ Len(PassSentences(p)[n]) >= chunker.config.min_chunk_size}

\* C26: a sentence with more than chunk_size words is never split: if it has
\* at least min_chunk_size words it appears whole in exactly one emitted chunk,
\* and that chunk holds no other sentence, at most an overlap seed before it.
OversizedSentenceOnce ==
    Chunked =>
        \A p \in DOMAIN chunker.passes :
            DistinctWords(PassText(p)) =>
                \A n \in OversizedSentences(p) :
                    \E i \in DOMAIN chunker.passes[p] :
                        /\ chunker.built[p][i].parts = <<n>>
                        /\ chunker.passes[p][i].text
                              = chunker.built[p][i].seed \o PassSentences(p)[n]
                        /\ \A j \in DOMAIN chunker.passes[p] :
                              j # i => ~RunOf(PassSentences(p)[n], chunker.passes[p][j].text)

\* C26, amended: a sentence with more than chunk_size and at least
\* min_chunk_size words is the only sentence of exactly one emitted chunk,
\* preceded there by at most an overlap seed of chunk_overlap words; it is
\* found whole in another emitted chunk only inside the overlap seed of a later
\* chunk, and only when chunk_overlap is at least its word count.
OversizedSentenceWhole ==
    Chunked =>
        \A p \in DOMAIN chunker.passes :
            \A n \in OversizedSentences(p) :
                \E i \in DOMAIN chunker.passes[p] :
                    /\ chunker.built[p][i].parts = <<n>>
                    /\ chunker.passes[p][i].text
                          = chunker.built[p][i].seed \o PassSentences(p)[n]
                    /\ Len(chunker.built[p][i].seed) <= chunker.config.chunk_overlap
                    /\ \A j \in DOMAIN chunker.passes[p] :
                          j # i =>
                             /\ n \notin Range(chunker.built[p][j].parts)
                             /\ (/\ DistinctWords(PassText(p))
                                 /\ RunOf(PassSentences(p)[n], chunker.passes[p][j].text))
                                   => /\ j > i
                                      /\ RunOf(PassSentences(p)[n], chunker.built[p][j].seed)
                                      /\ chunker.config.chunk_overlap
                                            >= Len(PassSentences(p)[n])

\* an oversized sentence emitted behind an overlap seed, and one repeated
\* whole in the seed of the chunk after its own
OversizedSentenceWholeWitness ==
    /\ Chunked
    /\ \E p \in DOMAIN chunker.passes :
          /\ \E n \in OversizedSentences(p), i \in DOMAIN chunker.passes[p] :
                /\ chunker.built[p][i].parts = <<n>>
                /\ chunker.built[p][i].seed # <<>>
          /\ \E n \in OversizedSentences(p), i \in DOMAIN chunker.passes[p] :
                /\ chunker.built[p][i].parts # <<n>>
                /\ RunOf(PassSentences(p)[n], chunker.built[p][i].seed)

\* C29: an emitted chunk has more than chunk_size words only if it is one
\* sentence behind an overlap seed of at most chunk_overlap words (or no seed);
\* a chunk of two or more sentences and no seed has at most chunk_size words;
\* and current_word_count always equals the word count of the accumulator.
ChunkSizeBound ==
    Chunked =>
        \A p \in DOMAIN chunker.passes :
            /\ \A i \in DOMAIN chunker.passes[p] :
                  LET size == Len(chunker.passes[p][i].text)
                      from == chunker.built[p][i]
                  IN /\ size > chunker.config.chunk_size =>
                            /\ Len(from.parts) = 1
                            /\ Len(from.seed) <= chunker.config.chunk_overlap
                     /\ (Len(from.parts) >= 2 /\ from.seed = <<>>) =>
                            size <= chunker.config.chunk_size
            /\ \A k \in DOMAIN chunker.counts[p] :
                  chunker.counts[p][k].tracked = chunker.counts[p][k].actual

\* one pass that emitted a chunk of two sentences within chunk_size and a
\* chunk of one sentence that its seed takes beyond chunk_size
ChunkSizeBoundWitness ==
    /\ Chunked
    /\ \E p \in DOMAIN chunker.passes :
          /\ \E i \in DOMAIN chunker.passes[p] :
                /\ Len(chunker.built[p][i].parts) >= 2
                /\ chunker.built[p][i].seed = <<>>
          /\ \E i \in DOMAIN chunker.passes[p] :
                /\ Len(chunker.passes[p][i].text) > chunker.config.chunk_size
                /\ chunker.built[p][i].seed # <<>>
                /\ Len(PassSentences(p)[chunker.built[p][i].parts[1]])
                      <= chunker.config.chunk_size

(***************************************************************************)
(* The filtered search against a search of the matching rows alone, under  *)
(* Spec.                                                                   *)
(***************************************************************************)
\* an index that holds only the rows of store whose doc_id is in doc_ids
MatchingRows(store, doc_ids) ==
    LET matching == SelectSeq([i \in DOMAIN store.metadata |-> i],
                              LAMBDA i : store.metadata[i].doc_id \in Range(doc_ids))
    IN Store([k \in DOMAIN matching |-> store.index[matching[k]]],
             [k \in DOMAIN matching |-> store.metadata[matching[k]]])

\* the (metadata, similarity) tuples search returns
ResultTuples(results) ==
    [i \in DOMAIN results |-> <<results[i].metadata, results[i].score>>]

\* C28: when doc_ids is a non-empty list and the index holds at most
\* 10 * top_k rows, search(q, top_k, doc_ids) returns the same rows in the same
\* order, up to ties in distance, as search(q, top_k) on an index of the rows
\* whose doc_id is in doc_ids: the min(top_k, matching rows) nearest of them.
FilteredSearchEquivalence ==
    (/\ last.op = "search"
     /\ last.raised = None
     /\ Truthy(last.args.doc_ids)
     /\ ntotal(last.pre.index) <= OVERFETCH * last.args.top_k) =>
        LET only == MatchingRows(last.pre, last.args.doc_ids)
        IN /\ Len(last.result) = Min(last.args.top_k, ntotal(only.index))
           /\ \E tie \in TieOrders :
                 LET out == SearchOutcome(only.index, only.metadata,
                                          last.args.query_embedding,
                                          last.args.top_k, None, tie)
                 IN /\ out.raised = None
                    /\ ResultTuples(out.result) = ResultTuples(last.result)

\* a filtered search over more rows than top_k whose nearest row the filter
\* rejects
FilteredSearchEquivalenceWitness ==
    /\ last.op = "search"
    /\ last.raised = None
    /\ Truthy(last.args.doc_ids)
    /\ ntotal(last.pre.index) <= OVERFETCH * last.args.top_k
    /\ ntotal(last.pre.index) > last.args.top_k
    /\ last.result # <<>>
    /\ \E i \in DOMAIN last.pre.metadata :
          /\ last.pre.metadata[i].doc_id \notin Range(last.args.doc_ids)
          /\ RowDistance(last.pre, i - 1, last.args.query_embedding)
                < RowDistance(last.pre, last.result[1].ordinal, last.args.query_embedding)

(***************************************************************************)
(* get_chunk_context, under SpecContext.                                   *)
(***************************************************************************)
ContextReturned == chunker.phase = "context"

\* the chunks of all_chunks in the document of chunk, in the order of chunk_index
DocChunks(chunk, all_chunks) ==
    LET same_doc == SelectSeq(all_chunks, LAMBDA c : c.doc_id = chunk.doc_id)
    IN SortByChunkIndex(same_doc, Len(same_doc))

\* C27: get_chunk_context returns the joined texts of the target chunk and of
\* up to context_size chunks right before and right after it among the chunks
\* of all_chunks of its document in the order of chunk_index, so the result
\* contains the text of the target chunk; if no chunk of all_chunks has the
\* chunk_id of the target, it returns the text of the target.
ContextAroundTarget ==
    ContextReturned =>
        LET c == chunker.context
            doc_chunks == DocChunks(c.chunk, c.all_chunks)
            n == Len(doc_chunks)
        IN IF \A i \in DOMAIN c.all_chunks :
                  c.all_chunks[i].chunk_id # c.chunk.chunk_id
           THEN c.result = c.chunk.text
           ELSE /\ RunOf(c.chunk.text, c.result)
                /\ \E t \in 1..n :
                      /\ doc_chunks[t] = c.chunk
                      /\ c.result = JoinTexts(SubSeq(doc_chunks,
                                                     Max(1, t - c.context_size),
                                                     Min(n, t + c.context_size)))

====
